---- MODULE Spec2Model ----
(***************************************************************************)
(* Model of the task synchronization engine of supabase-task-app:          *)
(* src/src/hooks/useTasks.ts (the useTasks hook) against a Data Service    *)
(* (the Supabase tables "tasks" / view "tasks_with_user" and the realtime  *)
(* channel on "tasks").                                                    *)
(*                                                                         *)
(* Every await of the hook is a suspension point: an asynchronous call is  *)
(* a record in the bag `ops` that carries the locals (and the closure's    *)
(* props) which survive the await, and one action per continuation.        *)
(* React state setters with an updater function act on the latest state,   *)
(* so each continuation reads and writes tasks / pagination atomically.    *)
(*                                                                         *)
(* - updateTask and deleteTask read `tasks` of the render that created     *)
(*   them; a call comes from the rendered list, so that is the state at    *)
(*   the call.  The snapshot they take lives in the suspended call.        *)
(* - A request is answered by the Data Service at one moment (when the     *)
(*   table is read or written) and a rejected request changes nothing.     *)
(*   The response of a successful mutation has no continuation that        *)
(*   writes state, so it is one step; a fetch and a handler's re-fetch     *)
(*   read the table in one step and resume the hook in a later one.        *)
(* - created_at is assigned with the serial id, so rows order by id.       *)
(* - The errors the Data Service client returns are plain objects, not     *)
(*   instances of Error, so the catch blocks use their fallback message.   *)
(* - The channel calls the handler of each event in emission order and     *)
(*   does not wait for the promise an async handler returns.               *)
(***************************************************************************)
EXTENDS Integers, Sequences, FiniteSets, Bags, TLC

VARIABLES
    db,          \* Data Service: id -> row of tasks_with_user, or NoRow
    nextId,      \* Data Service: the next serial id it assigns
    events,      \* realtime channel: change events emitted, not yet delivered
    view,        \* the hook's props: searchTerm, sortOrder, completionFilter, page, pageSize
    tasks,       \* useState<TaskWithUser[]>
    pagination,  \* useState<PaginationInfo>
    isLoading,   \* useState(true)
    error,       \* useState<string | null>
    ops,         \* bag of suspended asynchronous calls (fetches, mutations, handlers)
    outcome,     \* how the last finished mutation call ended (resolved or re-thrown)
    nDelivered,  \* number of notifications handed to a handler so far
    nOps,        \* number of calls / foreign changes started so far (bounded)
    channels,    \* realtime channels subscribed: the props their handlers were built with
    mounted      \* the component that uses the hook is mounted

vars == <<db, nextId, events, view, tasks, pagination, isLoading, error,
          ops, outcome, nDelivered, nOps, channels, mounted>>

----------------------------------------------------------------------------
(* Bounds of the model *)

MaxId == 3          \* ids the Data Service may assign: 1..MaxId
MaxOps == 2         \* calls and foreign changes started in one behaviour
MaxPage == 2        \* requested page: 1..MaxPage
MaxPageSize == 2    \* page size: 1..MaxPageSize

Ids == 1..MaxId

NoRow == [id |-> 0]
Null == "null"

----------------------------------------------------------------------------
(* Text: a string is a sequence of characters *)

Chars == {"a", "A", "b", "B", " "}

LowerChar(c) == CASE c = "A" -> "a" [] c = "B" -> "b" [] OTHER -> c

toLowerCase(s) == [i \in 1..Len(s) |-> LowerChar(s[i])]

RECURSIVE trim(_)
trim(s) ==
    IF s = <<>> THEN s
    ELSE IF Head(s) = " " THEN trim(Tail(s))
    ELSE IF s[Len(s)] = " " THEN trim(SubSeq(s, 1, Len(s) - 1))
    ELSE s

includes(s, sub) ==
    \E k \in 0..(Len(s) - Len(sub)) : SubSeq(s, k + 1, k + Len(sub)) = sub

Titles == {<<"A", "b">>, <<"b">>}
Descriptions == {<<"a", "B">>, <<"b">>}
SearchTerms == {<<>>, <<"a", "B">>, <<" ">>}

----------------------------------------------------------------------------
(* Arithmetic of the pagination calculator *)

Min(a, b) == IF a < b THEN a ELSE b
Max(a, b) == IF a > b THEN a ELSE b

\* Math.ceil(a / b) for a >= 0, b > 0
ceil(a, b) == (a + b - 1) \div b

\* Math.ceil(total / pageSize) || 1
TotalPagesOf(total, pageSize) ==
    IF ceil(total, pageSize) = 0 THEN 1 ELSE ceil(total, pageSize)

\* mutant: the requested page is floored at 1 but not capped at totalPages
ActualPage_uncapped(page, totalPages) == Max(1, page)

\* Math.max(1, Math.min(page, totalPages))
ActualPage(page, totalPages) == Max(1, Min(page, totalPages))

\* Array.prototype.slice(from, to) on a sequence (0-based, to exclusive)
slice(s, from, to) == SubSeq(s, from + 1, Min(to, Len(s)))

----------------------------------------------------------------------------
(* Data Service: the queries of fetchTasks against tasks_with_user *)

\* .eq("isCompleted", false) / .eq("isCompleted", true) / no filter
CompletionQuery(row, completionFilter) ==
    CASE completionFilter = "active" -> row.isCompleted = FALSE
      [] completionFilter = "completed" -> row.isCompleted = TRUE
      [] OTHER -> TRUE

\* column ILIKE %term% : case-insensitive containment
ilike(text, term) == includes(toLowerCase(text), toLowerCase(term))

\* if (searchTerm.trim()) query.or(`title.ilike.%t%,description.ilike.%t%`)
SearchQuery(row, searchTerm) ==
    IF trim(searchTerm) # <<>>
    THEN ilike(row.title, searchTerm) \/ ilike(row.description, searchTerm)
    ELSE TRUE

MatchingIds(d, v) ==
    {i \in Ids : /\ d[i] # NoRow
                 /\ CompletionQuery(d[i], v.completionFilter)
                 /\ SearchQuery(d[i], v.searchTerm)}

\* created_at is assigned together with the serial id, so it orders like id
RECURSIVE Ascending(_)
Ascending(S) ==
    IF S = {} THEN <<>>
    ELSE LET m == CHOOSE x \in S : \A y \in S : x <= y
         IN  <<m>> \o Ascending(S \ {m})

Reverse(s) == [i \in 1..Len(s) |-> s[Len(s) + 1 - i]]

\* .order("created_at", { ascending: sortOrder === "oldest" })
OrderedIds(S, sortOrder) ==
    IF sortOrder = "oldest" THEN Ascending(S) ELSE Reverse(Ascending(S))

\* select("*", { count: 'exact', head: true }) with the filters
CountQuery(d, v) == Cardinality(MatchingIds(d, v))

\* select("*") with the filters, the order and .range(from, to) (to inclusive)
DataQuery(d, v, from, to) ==
    LET ids == OrderedIds(MatchingIds(d, v), v.sortOrder)
        win == slice(ids, from, to + 1)
    IN  [i \in 1..Len(win) |-> d[win[i]]]

----------------------------------------------------------------------------
(* Helpers on the task list *)

IdsOf(list) == {list[i].id : i \in 1..Len(list)}

RemoveOp(op) == ops (-) SetToBag({op})
AddOp(op) == ops (+) SetToBag({op})
InFlight == BagToSet(ops)

\* mutant: the catch block always uses its fallback message
ErrorMessage_fallbackOnly(err, fallback) == fallback

\* err instanceof Error ? err.message : fallback.  The errors the Data
\* Service client returns are plain objects, so the fallback is used; the
\* precondition failure is `new Error("Task not found")`.
ErrorMessage(err, fallback) ==
    IF err = "Error:Task not found" THEN "Task not found" ELSE fallback

----------------------------------------------------------------------------
(* fetchTasks *)

FetchStart ==
    /\ nOps < MaxOps
    /\ nOps' = nOps + 1
    /\ isLoading' = TRUE
    /\ error' = Null
    /\ ops' = AddOp([kind |-> "fetch", stage |-> "count", v |-> view])
    /\ UNCHANGED <<db, nextId, events, view, channels, mounted, tasks, pagination, outcome, nDelivered>>

\* the count request returns; the locals of lines 69-97 are computed
FetchCountReturn(op) ==
    /\ op.kind = "fetch" /\ op.stage = "count"
    /\ LET total == CountQuery(db, op.v)
           totalPages == TotalPagesOf(total, op.v.pageSize)
           actualPage == ActualPage(op.v.page, totalPages)
           from == (actualPage - 1) * op.v.pageSize
           to == from + op.v.pageSize - 1
       IN  ops' = RemoveOp(op) (+) SetToBag({[kind |-> "fetch", stage |-> "data",
                     v |-> op.v, total |-> total, totalPages |-> totalPages,
                     actualPage |-> actualPage, from |-> from, to |-> to]})
    /\ UNCHANGED <<db, nextId, events, view, channels, mounted, tasks, pagination, isLoading, error,
                   outcome, nDelivered, nOps>>

\* mutant: the catch block also empties the list
FetchCatch_clearsList(op) ==
    /\ error' = ErrorMessage("PostgrestError", "Failed to fetch tasks")
    /\ isLoading' = FALSE
    /\ tasks' = <<>>
    /\ ops' = RemoveOp(op)
    /\ UNCHANGED <<db, nextId, events, view, channels, mounted, pagination, outcome, nDelivered, nOps>>

\* mutant: there is no finally: a failed fetch leaves isLoading as it is
FetchCatch_keepsLoading(op) ==
    /\ error' = ErrorMessage("PostgrestError", "Failed to fetch tasks")
    /\ ops' = RemoveOp(op)
    /\ UNCHANGED <<db, nextId, events, view, channels, mounted, tasks, pagination,
                   isLoading, outcome, nDelivered, nOps>>

\* catch / finally of fetchTasks
FetchCatch(op) ==
    /\ error' = ErrorMessage("PostgrestError", "Failed to fetch tasks")
    /\ isLoading' = FALSE
    /\ ops' = RemoveOp(op)
    /\ UNCHANGED <<db, nextId, events, view, channels, mounted, tasks, pagination, outcome, nDelivered, nOps>>

FetchCountFail(op) ==
    /\ op.kind = "fetch" /\ op.stage = "count"
    /\ FetchCatch(op)

\* the Data Service evaluates the data request
FetchDataServe(op) ==
    /\ op.kind = "fetch" /\ op.stage = "data"
    /\ ops' = RemoveOp(op) (+) SetToBag({[kind |-> "fetch", stage |-> "apply",
                 v |-> op.v, total |-> op.total, totalPages |-> op.totalPages,
                 actualPage |-> op.actualPage,
                 data |-> DataQuery(db, op.v, op.from, op.to)]})
    /\ UNCHANGED <<db, nextId, events, view, channels, mounted, tasks, pagination, isLoading, error,
                   outcome, nDelivered, nOps>>

FetchDataFail(op) ==
    /\ op.kind = "fetch" /\ op.stage = "data"
    /\ FetchCatch(op)

\* mutant: the response of a fetch issued for earlier props is discarded
FetchDataReturn_dropsStale(op) ==
    /\ op.kind = "fetch" /\ op.stage = "apply"
    /\ IF op.v = view
       THEN /\ tasks' = op.data
            /\ pagination' = [currentPage |-> op.actualPage,
                              totalPages |-> op.totalPages,
                              totalCount |-> op.total,
                              pageSize |-> op.v.pageSize,
                              hasNextPage |-> op.actualPage < op.totalPages,
                              hasPrevPage |-> op.actualPage > 1]
       ELSE UNCHANGED <<tasks, pagination>>
    /\ isLoading' = FALSE
    /\ ops' = RemoveOp(op)
    /\ UNCHANGED <<db, nextId, events, view, channels, mounted, error, outcome, nDelivered, nOps>>

\* the data response arrives: setTasks(data), setPagination({...}), finally
FetchDataReturn(op) ==
    /\ op.kind = "fetch" /\ op.stage = "apply"
    /\ tasks' = op.data
    /\ pagination' = [currentPage |-> op.actualPage,
                      totalPages |-> op.totalPages,
                      totalCount |-> op.total,
                      pageSize |-> op.v.pageSize,
                      hasNextPage |-> op.actualPage < op.totalPages,
                      hasPrevPage |-> op.actualPage > 1]
    /\ isLoading' = FALSE
    /\ ops' = RemoveOp(op)
    /\ UNCHANGED <<db, nextId, events, view, channels, mounted, error, outcome, nDelivered, nOps>>

----------------------------------------------------------------------------
(* Mutation coordinator: addTask, updateTask, deleteTask, toggleTask *)

\* TaskUpdate values the callers pass: partial records over the task's columns
Updates ==
    {[title |-> <<"b">>], [title |-> <<"A", "b">>, description |-> <<"b">>],
     [isCompleted |-> TRUE]}

\* { ...task, ...updates }
Spread(task, updates) ==
    [f \in DOMAIN task |-> IF f \in DOMAIN updates THEN updates[f] ELSE task[f]]

\* tasks.find(t => t.id === id)
find(list, id) ==
    IF id \in IdsOf(list)
    THEN list[CHOOSE i \in 1..Len(list) :
                  list[i].id = id /\ \A j \in 1..(i - 1) : list[j].id # id]
    ELSE NoRow

\* prevTasks.filter(task => task.id !== id)
RECURSIVE filterOut(_, _)
filterOut(list, id) ==
    IF list = <<>> THEN <<>>
    ELSE IF Head(list).id = id THEN filterOut(Tail(list), id)
    ELSE <<Head(list)>> \o filterOut(Tail(list), id)

\* prevTasks.map(task => task.id === id ? { ...task, ...updates } : task)
OptimisticUpdate(list, id, updates) ==
    [i \in 1..Len(list) |-> IF list[i].id = id THEN Spread(list[i], updates) ELSE list[i]]

\* mutant: the revert spreads the patched entry over the snapshot
RevertUpdate_respread(list, id, originalTask) ==
    [i \in 1..Len(list) |->
        IF list[i].id = id THEN Spread(originalTask, list[i]) ELSE list[i]]

\* prevTasks.map(task => task.id === id ? originalTask : task)
RevertUpdate(list, id, originalTask) ==
    [i \in 1..Len(list) |-> IF list[i].id = id THEN originalTask ELSE list[i]]

\* mutant: the revert does not put the task back
RevertDelete_dropped(list, taskToDelete) == list

\* [...prevTasks, taskToDelete]
RevertDelete(list, taskToDelete) == Append(list, taskToDelete)

\* prevTasks.map(task => task.id === id ? { ...task, isCompleted: value } : task)
SetCompleted(list, id, value) ==
    [i \in 1..Len(list) |->
        IF list[i].id = id THEN [list[i] EXCEPT !.isCompleted = value] ELSE list[i]]

\* mutant: the catch block stores the message and does not re-throw
Rethrow_swallowed(kind, err, fallback) ==
    /\ error' = ErrorMessage(err, fallback)
    /\ outcome' = [kind |-> kind, threw |-> FALSE]

\* the catch block of a mutation: setError(message); throw err
Rethrow(kind, err, fallback) ==
    /\ error' = ErrorMessage(err, fallback)
    /\ outcome' = [kind |-> kind, threw |-> TRUE]

\* the call's promise resolves
Resolve(kind) ==
    outcome' = [kind |-> kind, threw |-> FALSE]

\* Data Service: a change of the tasks table is applied and announced on the channel
Announce(type, id) == events' = Append(events, [type |-> type, id |-> id])

\* the new tasks the form submits
NewTasks ==
    {[title |-> <<"A", "b">>, description |-> <<"b">>],
     [title |-> <<"b">>, description |-> <<"b">>]}

AddTask(title, description) ==
    /\ nOps < MaxOps
    /\ nOps' = nOps + 1
    /\ error' = Null
    /\ ops' = AddOp([kind |-> "add", title |-> title, description |-> description])
    /\ UNCHANGED <<db, nextId, events, view, channels, mounted, tasks, pagination, isLoading, outcome, nDelivered>>

\* mutant: the created row is also appended to the local list
AddOk_insertsLocally(op) ==
    /\ op.kind = "add"
    /\ nextId <= MaxId
    /\ db' = [db EXCEPT ![nextId] = [id |-> nextId, title |-> op.title,
                  description |-> op.description, isCompleted |-> FALSE]]
    /\ nextId' = nextId + 1
    /\ Announce("INSERT", nextId)
    /\ Resolve("add")
    /\ tasks' = Append(tasks, [id |-> nextId, title |-> op.title,
                  description |-> op.description, isCompleted |-> FALSE])
    /\ ops' = RemoveOp(op)
    /\ UNCHANGED <<view, channels, mounted, pagination, isLoading, error, nDelivered, nOps>>

AddOk(op) ==
    /\ op.kind = "add"
    /\ nextId <= MaxId
    /\ db' = [db EXCEPT ![nextId] = [id |-> nextId, title |-> op.title,
                  description |-> op.description, isCompleted |-> FALSE]]
    /\ nextId' = nextId + 1
    /\ Announce("INSERT", nextId)
    /\ Resolve("add")
    /\ ops' = RemoveOp(op)
    /\ UNCHANGED <<view, channels, mounted, tasks, pagination, isLoading, error, nDelivered, nOps>>

AddFail(op) ==
    /\ op.kind = "add"
    /\ Rethrow("add", "PostgrestError", "Failed to add task")
    /\ ops' = RemoveOp(op)
    /\ UNCHANGED <<db, nextId, events, view, channels, mounted, tasks, pagination, isLoading, nDelivered, nOps>>

\* updateTask up to its await; `pre` is the list at the call (history only)
UpdateTask(id, updates) ==
    /\ nOps < MaxOps
    /\ nOps' = nOps + 1
    /\ LET originalTask == find(tasks, id)
       IN  IF originalTask = NoRow
           THEN /\ Rethrow("update", "Error:Task not found", "Failed to update task")
                /\ UNCHANGED <<tasks, ops>>
           ELSE /\ error' = Null
                /\ tasks' = OptimisticUpdate(tasks, id, updates)
                /\ ops' = AddOp([kind |-> "update", id |-> id, updates |-> updates,
                                 originalTask |-> originalTask, pre |-> tasks])
                /\ UNCHANGED outcome
    /\ UNCHANGED <<db, nextId, events, view, channels, mounted, pagination, isLoading, nDelivered>>

\* mutant: the revert also runs when the update succeeded
UpdateOk_reverts(op) ==
    /\ op.kind = "update"
    /\ IF db[op.id] # NoRow
       THEN /\ db' = [db EXCEPT ![op.id] = Spread(db[op.id], op.updates)]
            /\ Announce("UPDATE", op.id)
       ELSE UNCHANGED <<db, events>>
    /\ tasks' = RevertUpdate(tasks, op.id, op.originalTask)
    /\ Resolve("update")
    /\ ops' = RemoveOp(op)
    /\ UNCHANGED <<nextId, view, channels, mounted, pagination, isLoading, error, nDelivered, nOps>>

UpdateOk(op) ==
    /\ op.kind = "update"
    /\ IF db[op.id] # NoRow
       THEN /\ db' = [db EXCEPT ![op.id] = Spread(db[op.id], op.updates)]
            /\ Announce("UPDATE", op.id)
       ELSE UNCHANGED <<db, events>>
    /\ Resolve("update")
    /\ ops' = RemoveOp(op)
    /\ UNCHANGED <<nextId, view, channels, mounted, tasks, pagination, isLoading, error, nDelivered, nOps>>

UpdateFail(op) ==
    /\ op.kind = "update"
    /\ tasks' = RevertUpdate(tasks, op.id, op.originalTask)
    /\ Rethrow("update", "PostgrestError", "Failed to update task")
    /\ ops' = RemoveOp(op)
    /\ UNCHANGED <<db, nextId, events, view, channels, mounted, pagination, isLoading, nDelivered, nOps>>

DeleteTask(id) ==
    /\ nOps < MaxOps
    /\ nOps' = nOps + 1
    /\ LET taskToDelete == find(tasks, id)
       IN  IF taskToDelete = NoRow
           THEN /\ Rethrow("delete", "Error:Task not found", "Failed to delete task")
                /\ UNCHANGED <<tasks, ops>>
           ELSE /\ error' = Null
                /\ tasks' = filterOut(tasks, id)
                /\ ops' = AddOp([kind |-> "delete", id |-> id,
                                 taskToDelete |-> taskToDelete])
                /\ UNCHANGED outcome
    /\ UNCHANGED <<db, nextId, events, view, channels, mounted, pagination, isLoading, nDelivered>>

DeleteOk(op) ==
    /\ op.kind = "delete"
    /\ IF db[op.id] # NoRow
       THEN /\ db' = [db EXCEPT ![op.id] = NoRow]
            /\ Announce("DELETE", op.id)
       ELSE UNCHANGED <<db, events>>
    /\ Resolve("delete")
    /\ ops' = RemoveOp(op)
    /\ UNCHANGED <<nextId, view, channels, mounted, tasks, pagination, isLoading, error, nDelivered, nOps>>

DeleteFail(op) ==
    /\ op.kind = "delete"
    /\ tasks' = RevertDelete(tasks, op.taskToDelete)
    /\ Rethrow("delete", "PostgrestError", "Failed to delete task")
    /\ ops' = RemoveOp(op)
    /\ UNCHANGED <<db, nextId, events, view, channels, mounted, pagination, isLoading, nDelivered, nOps>>

ToggleTask(id, isCompleted) ==
    /\ nOps < MaxOps
    /\ nOps' = nOps + 1
    /\ error' = Null
    /\ tasks' = SetCompleted(tasks, id, ~isCompleted)
    /\ ops' = AddOp([kind |-> "toggle", id |-> id, isCompleted |-> isCompleted])
    /\ UNCHANGED <<db, nextId, events, view, channels, mounted, pagination, isLoading, outcome, nDelivered>>

ToggleOk(op) ==
    /\ op.kind = "toggle"
    /\ IF db[op.id] # NoRow
       THEN /\ db' = [db EXCEPT ![op.id].isCompleted = ~op.isCompleted]
            /\ Announce("UPDATE", op.id)
       ELSE UNCHANGED <<db, events>>
    /\ Resolve("toggle")
    /\ ops' = RemoveOp(op)
    /\ UNCHANGED <<nextId, view, channels, mounted, tasks, pagination, isLoading, error, nDelivered, nOps>>

\* mutant: the revert negates the value displayed instead of using the argument
ToggleFail_flipsDisplayed(op) ==
    /\ op.kind = "toggle"
    /\ tasks' = [i \in 1..Len(tasks) |->
                    IF tasks[i].id = op.id
                    THEN [tasks[i] EXCEPT !.isCompleted = ~tasks[i].isCompleted]
                    ELSE tasks[i]]
    /\ Rethrow("toggle", "PostgrestError", "Failed to toggle task")
    /\ ops' = RemoveOp(op)
    /\ UNCHANGED <<db, nextId, events, view, channels, mounted, pagination, isLoading, nDelivered, nOps>>

ToggleFail(op) ==
    /\ op.kind = "toggle"
    /\ tasks' = SetCompleted(tasks, op.id, op.isCompleted)
    /\ Rethrow("toggle", "PostgrestError", "Failed to toggle task")
    /\ ops' = RemoveOp(op)
    /\ UNCHANGED <<db, nextId, events, view, channels, mounted, pagination, isLoading, nDelivered, nOps>>

----------------------------------------------------------------------------
(* Other users of the shared task list change the tasks table *)

OtherInsert(title, description) ==
    /\ nOps < MaxOps
    /\ nOps' = nOps + 1
    /\ nextId <= MaxId
    /\ db' = [db EXCEPT ![nextId] = [id |-> nextId, title |-> title,
                  description |-> description, isCompleted |-> FALSE]]
    /\ nextId' = nextId + 1
    /\ Announce("INSERT", nextId)
    /\ UNCHANGED <<view, channels, mounted, tasks, pagination, isLoading, error, ops, outcome, nDelivered>>

OtherUpdate(id, updates) ==
    /\ nOps < MaxOps
    /\ nOps' = nOps + 1
    /\ db[id] # NoRow
    /\ db' = [db EXCEPT ![id] = Spread(db[id], updates)]
    /\ Announce("UPDATE", id)
    /\ UNCHANGED <<nextId, view, channels, mounted, tasks, pagination, isLoading, error, ops, outcome, nDelivered>>

OtherDelete(id) ==
    /\ nOps < MaxOps
    /\ nOps' = nOps + 1
    /\ db[id] # NoRow
    /\ db' = [db EXCEPT ![id] = NoRow]
    /\ Announce("DELETE", id)
    /\ UNCHANGED <<nextId, view, channels, mounted, tasks, pagination, isLoading, error, ops, outcome, nDelivered>>

----------------------------------------------------------------------------
(* Change merger: handleRealtimeInsert / handleRealtimeUpdate / handleRealtimeDelete *)

\* mutant: the check against the "completed" filter is missing
InsertPasses_noCompletedCheck(row, v) ==
    /\ ~(v.completionFilter = "active" /\ row.isCompleted = TRUE)
    /\ IF trim(v.searchTerm) # <<>>
       THEN \/ includes(toLowerCase(row.title), toLowerCase(v.searchTerm))
            \/ includes(toLowerCase(row.description), toLowerCase(v.searchTerm))
       ELSE TRUE

\* the filter checks of handleRealtimeInsert (lines 263-272): TRUE = keep
InsertPasses(row, v) ==
    /\ ~(v.completionFilter = "active" /\ row.isCompleted = TRUE)
    /\ ~(v.completionFilter = "completed" /\ row.isCompleted # TRUE)
    /\ IF trim(v.searchTerm) # <<>>
       THEN \/ includes(toLowerCase(row.title), toLowerCase(v.searchTerm))
            \/ includes(toLowerCase(row.description), toLowerCase(v.searchTerm))
       ELSE TRUE

\* mutant: a row completed under the "active" filter is not removed
shouldRemove_completedOnly(row, v) ==
    LET byCompletion == (v.completionFilter = "completed" /\ row.isCompleted = FALSE)
    IN  IF ~byCompletion /\ trim(v.searchTerm) # <<>>
        THEN ~(\/ includes(toLowerCase(row.title), toLowerCase(v.searchTerm))
               \/ includes(toLowerCase(row.description), toLowerCase(v.searchTerm)))
        ELSE byCompletion

\* shouldRemove of handleRealtimeUpdate (lines 314-325)
shouldRemove(row, v) ==
    LET byCompletion ==
            \/ (v.completionFilter = "active" /\ row.isCompleted = TRUE)
            \/ (v.completionFilter = "completed" /\ row.isCompleted = FALSE)
    IN  IF ~byCompletion /\ trim(v.searchTerm) # <<>>
        THEN ~(\/ includes(toLowerCase(row.title), toLowerCase(v.searchTerm))
               \/ includes(toLowerCase(row.description), toLowerCase(v.searchTerm)))
        ELSE byCompletion

\* mutant: no check for an entry of the same id
InsertIntoList_noDedupe(prevTasks, newTask, v) ==
    LET updatedTasks == IF v.sortOrder = "newest"
                        THEN <<newTask>> \o prevTasks
                        ELSE Append(prevTasks, newTask)
        from == (v.page - 1) * v.pageSize
        to == from + v.pageSize
    IN  slice(updatedTasks, from, to)

\* mutant: the new task is put at the head whatever the sort order
InsertIntoList_alwaysHead(prevTasks, newTask, v) ==
    IF newTask.id # 0 /\ newTask.id \in IdsOf(prevTasks)
    THEN prevTasks
    ELSE LET updatedTasks == <<newTask>> \o prevTasks
             from == (v.page - 1) * v.pageSize
             to == from + v.pageSize
         IN  slice(updatedTasks, from, to)

\* the setTasks updater of handleRealtimeInsert (lines 275-289)
InsertIntoList(prevTasks, newTask, v) ==
    IF newTask.id # 0 /\ newTask.id \in IdsOf(prevTasks)
    THEN prevTasks
    ELSE LET updatedTasks == IF v.sortOrder = "newest"
                             THEN <<newTask>> \o prevTasks
                             ELSE Append(prevTasks, newTask)
             from == (v.page - 1) * v.pageSize
             to == from + v.pageSize
         IN  slice(updatedTasks, from, to)

\* mutant: the updated row is moved to the head of the list
ReplaceInPlace_toHead(prevTasks, taskId, updatedTask) ==
    IF taskId \in IdsOf(prevTasks)
    THEN <<updatedTask>> \o filterOut(prevTasks, taskId)
    ELSE prevTasks

\* prevTasks.map(task => task.id === taskId ? updatedTask : task)
ReplaceInPlace(prevTasks, taskId, updatedTask) ==
    [i \in 1..Len(prevTasks) |->
        IF prevTasks[i].id = taskId THEN updatedTask ELSE prevTasks[i]]

\* the setPagination updater of handleRealtimeInsert (lines 292-296)
CountUp(prev) ==
    [prev EXCEPT !.totalCount = prev.totalCount + 1,
                 !.totalPages = ceil(prev.totalCount + 1, prev.pageSize)]

\* mutant: the count is lowered without the floor at 0
CountDown_unfloored(prev) ==
    [prev EXCEPT !.totalCount = prev.totalCount - 1,
                 !.totalPages = ceil(Max(0, prev.totalCount - 1), prev.pageSize)]

\* the setPagination updater of the update and delete handlers
CountDown(prev) ==
    [prev EXCEPT !.totalCount = Max(0, prev.totalCount - 1),
                 !.totalPages = ceil(Max(0, prev.totalCount - 1), prev.pageSize)]

\* the channel hands the next event to its handler, which runs to its await
DeliverInsert ==
    /\ events # <<>>
    /\ Head(events).type = "INSERT"
    /\ events' = Tail(events)
    /\ nDelivered' = nDelivered + 1
    /\ ops' = AddOp([kind |-> "handleRealtimeInsert", stage |-> "refetch",
                     id |-> Head(events).id, v |-> view, seq |-> nDelivered + 1])
    /\ UNCHANGED <<db, nextId, view, channels, mounted, tasks, pagination, isLoading, error, outcome, nOps>>

DeliverUpdate ==
    /\ events # <<>>
    /\ Head(events).type = "UPDATE"
    /\ events' = Tail(events)
    /\ nDelivered' = nDelivered + 1
    /\ ops' = AddOp([kind |-> "handleRealtimeUpdate", stage |-> "refetch",
                     id |-> Head(events).id, v |-> view, seq |-> nDelivered + 1])
    /\ UNCHANGED <<db, nextId, view, channels, mounted, tasks, pagination, isLoading, error, outcome, nOps>>

\* handleRealtimeDelete has no await: it runs to its end on delivery
handleRealtimeDelete ==
    /\ events # <<>>
    /\ Head(events).type = "DELETE"
    /\ events' = Tail(events)
    /\ nDelivered' = nDelivered + 1
    /\ tasks' = filterOut(tasks, Head(events).id)
    /\ pagination' = CountDown(pagination)
    /\ UNCHANGED <<db, nextId, view, channels, mounted, isLoading, error, ops, outcome, nOps>>

\* the Data Service answers the handler's query of the joined row;
\* .single() gives data = null when there is no such row or the query fails
RefetchServe(h, ok) ==
    /\ h.kind \in {"handleRealtimeInsert", "handleRealtimeUpdate"}
    /\ h.stage = "refetch"
    /\ ops' = RemoveOp(h) (+) SetToBag({[kind |-> h.kind, stage |-> "resume",
                 id |-> h.id, v |-> h.v, seq |-> h.seq,
                 taskWithUser |-> IF ok THEN db[h.id] ELSE NoRow]})
    /\ UNCHANGED <<db, nextId, events, view, channels, mounted, tasks, pagination, isLoading, error,
                   outcome, nDelivered, nOps>>

\* handleRealtimeInsert after its await
handleRealtimeInsert(h) ==
    /\ h.kind = "handleRealtimeInsert" /\ h.stage = "resume"
    /\ ops' = RemoveOp(h)
    /\ IF h.taskWithUser = NoRow \/ ~InsertPasses(h.taskWithUser, h.v)
       THEN UNCHANGED <<tasks, pagination>>
       ELSE /\ tasks' = InsertIntoList(tasks, h.taskWithUser, h.v)
            /\ pagination' = CountUp(pagination)
    /\ UNCHANGED <<db, nextId, events, view, channels, mounted, isLoading, error, outcome, nDelivered, nOps>>

\* mutant: a row that cannot be re-fetched is taken out of the list
handleRealtimeUpdate_removesMissing(h) ==
    /\ h.kind = "handleRealtimeUpdate" /\ h.stage = "resume"
    /\ ops' = RemoveOp(h)
    /\ IF h.taskWithUser = NoRow \/ shouldRemove(h.taskWithUser, h.v)
       THEN /\ tasks' = filterOut(tasks, h.id)
            /\ pagination' = CountDown(pagination)
       ELSE /\ tasks' = ReplaceInPlace(tasks, h.id, h.taskWithUser)
            /\ UNCHANGED pagination
    /\ UNCHANGED <<db, nextId, events, view, channels, mounted, isLoading, error, outcome, nDelivered, nOps>>

\* handleRealtimeUpdate after its await
handleRealtimeUpdate(h) ==
    /\ h.kind = "handleRealtimeUpdate" /\ h.stage = "resume"
    /\ ops' = RemoveOp(h)
    /\ IF h.taskWithUser = NoRow
       THEN UNCHANGED <<tasks, pagination>>
       ELSE IF shouldRemove(h.taskWithUser, h.v)
            THEN /\ tasks' = filterOut(tasks, h.id)
                 /\ pagination' = CountDown(pagination)
            ELSE /\ tasks' = ReplaceInPlace(tasks, h.id, h.taskWithUser)
                 /\ UNCHANGED pagination
    /\ UNCHANGED <<db, nextId, events, view, channels, mounted, isLoading, error, outcome, nDelivered, nOps>>

----------------------------------------------------------------------------
(* Life cycle of the hook: the effects re-run when the props change *)

\* the body of the channel effect: a channel whose handlers are those of the props
Subscribe(chs, v) == chs \cup {v}

\* mutant: the cleanup leaves the channel subscribed
RemoveChannel_kept(chs, v) == chs

\* the cleanup of the channel effect: supabase.removeChannel(channel)
RemoveChannel(chs, v) == chs \ {v}

\* the component renders the hook with other props: fetchTasks and the three
\* handlers are new callbacks, so the fetch effect runs fetchTasks() up to its
\* await and the channel effect runs its cleanup and then its body
ChangeView(v) ==
    /\ mounted
    /\ nOps < MaxOps
    /\ nOps' = nOps + 1
    /\ v # view
    /\ view' = v
    /\ channels' = Subscribe(RemoveChannel(channels, view), v)
    /\ isLoading' = TRUE
    /\ error' = Null
    /\ ops' = AddOp([kind |-> "fetch", stage |-> "count", v |-> v])
    /\ UNCHANGED <<db, nextId, events, tasks, pagination, outcome, nDelivered, mounted>>

\* the component is torn down: the cleanup of the channel effect runs
Unmount ==
    /\ mounted
    /\ mounted' = FALSE
    /\ channels' = RemoveChannel(channels, view)
    /\ UNCHANGED <<db, nextId, events, view, tasks, pagination, isLoading, error,
                   ops, outcome, nDelivered, nOps>>

\* the channel of the current props is subscribed
Subscribed == view \in channels

\* a change event with no channel subscribed reaches no handler
DropEvent ==
    /\ events # <<>>
    /\ channels = {}
    /\ events' = Tail(events)
    /\ UNCHANGED <<db, nextId, view, tasks, pagination, isLoading, error,
                   ops, outcome, nDelivered, nOps, channels, mounted>>

----------------------------------------------------------------------------
(* The specification *)

Views ==
    [searchTerm : SearchTerms, sortOrder : {"newest", "oldest"},
     completionFilter : {"all", "active", "completed"},
     page : 1..MaxPage, pageSize : 1..MaxPageSize]

Row(id, title, description, isCompleted) ==
    [id |-> id, title |-> title, description |-> description,
     isCompleted |-> isCompleted]

\* the props with which the hook is mounted: at most one of searchTerm,
\* sortOrder and completionFilter departs from its default (lines 27-29)
CoreViews ==
    {v \in Views :
        /\ v.searchTerm # <<" ">>
        /\ Cardinality({f \in {"searchTerm", "sortOrder", "completionFilter"} :
                v[f] # (CASE f = "searchTerm" -> <<>>
                          [] f = "sortOrder" -> "newest"
                          [] OTHER -> "all")}) <= 1}

\* what the tasks table holds when the hook is mounted
TwoTasks ==
    [i \in Ids |-> CASE i = 1 -> Row(1, <<"A", "b">>, <<"b">>, FALSE)
                     [] i = 2 -> Row(2, <<"b">>, <<"a", "B">>, TRUE)
                     [] OTHER -> NoRow]

\* the useState initial values, and the mount effect's fetchTasks() up to its await
Mount(views, tables) ==
    /\ view \in views
    /\ db \in tables
    /\ nextId = 1 + Cardinality({i \in Ids : db[i] # NoRow})
    /\ events = <<>>
    /\ tasks = <<>>
    /\ pagination = [currentPage |-> view.page, totalPages |-> 1, totalCount |-> 0,
                     pageSize |-> view.pageSize, hasNextPage |-> FALSE,
                     hasPrevPage |-> FALSE]
    /\ isLoading = TRUE
    /\ error = Null
    /\ ops = SetToBag({[kind |-> "fetch", stage |-> "count", v |-> view]})
    /\ outcome = [kind |-> "none", threw |-> FALSE]
    /\ nDelivered = 0
    /\ nOps = 0
    /\ channels = {view}
    /\ mounted = TRUE

Init == Mount(CoreViews, {TwoTasks})

Next ==
    \/ FetchStart
    \/ \E op \in InFlight : FetchCountReturn(op)
    \/ \E op \in InFlight : FetchCountFail(op)
    \/ \E op \in InFlight : FetchDataServe(op)
    \/ \E op \in InFlight : FetchDataFail(op)
    \/ \E op \in InFlight : FetchDataReturn(op)
    \/ \E n \in NewTasks : AddTask(n.title, n.description)
    \/ \E op \in InFlight : AddOk(op)
    \/ \E op \in InFlight : AddFail(op)
    \/ \E id \in Ids, u \in Updates : UpdateTask(id, u)
    \/ \E op \in InFlight : UpdateOk(op)
    \/ \E op \in InFlight : UpdateFail(op)
    \/ \E id \in Ids : DeleteTask(id)
    \/ \E op \in InFlight : DeleteOk(op)
    \/ \E op \in InFlight : DeleteFail(op)
    \/ \E id \in Ids, b \in BOOLEAN : ToggleTask(id, b)
    \/ \E op \in InFlight : ToggleOk(op)
    \/ \E op \in InFlight : ToggleFail(op)
    \/ \E n \in NewTasks : OtherInsert(n.title, n.description)
    \/ \E id \in Ids, u \in Updates : OtherUpdate(id, u)
    \/ \E id \in Ids : OtherDelete(id)
    \/ DeliverInsert
    \/ DeliverUpdate
    \/ handleRealtimeDelete
    \/ \E h \in InFlight, ok \in BOOLEAN : RefetchServe(h, ok)
    \/ \E h \in InFlight : handleRealtimeInsert(h)
    \/ \E h \in InFlight : handleRealtimeUpdate(h)

Spec == Init /\ [][Next]_vars

\* The change merger alone, under every combination of the props: the hook is
\* mounted, other users change the table, the notifications are merged.
InitMerge == Mount(Views, {TwoTasks})

NextMerge ==
    \/ \E op \in InFlight : FetchCountReturn(op)
    \/ \E op \in InFlight : FetchDataServe(op)
    \/ \E op \in InFlight : FetchDataReturn(op)
    \/ \E n \in NewTasks : OtherInsert(n.title, n.description)
    \/ \E id \in Ids, u \in Updates : OtherUpdate(id, u)
    \/ \E id \in Ids : OtherDelete(id)
    \/ DeliverInsert
    \/ DeliverUpdate
    \/ handleRealtimeDelete
    \/ \E h \in InFlight, ok \in BOOLEAN : RefetchServe(h, ok)
    \/ \E h \in InFlight : handleRealtimeInsert(h)
    \/ \E h \in InFlight : handleRealtimeUpdate(h)

SpecMerge == InitMerge /\ [][NextMerge]_vars

\* the props of the next render: the user changes one of them at a time
NextViews(v) ==
    {w \in CoreViews : Cardinality({f \in DOMAIN v : v[f] # w[f]}) = 1}

\* The hook through its life: mounted, re-rendered with other props, torn
\* down, while other users change the table and the notifications are merged.
NextLife ==
    \/ \E op \in InFlight : FetchCountReturn(op)
    \/ \E op \in InFlight : FetchDataServe(op)
    \/ \E op \in InFlight : FetchDataReturn(op)
    \/ \E v \in NextViews(view) : ChangeView(v)
    \/ Unmount
    \/ \E n \in NewTasks : OtherInsert(n.title, n.description)
    \/ \E id \in Ids, u \in Updates : OtherUpdate(id, u)
    \/ \E id \in Ids : OtherDelete(id)
    \/ Subscribed /\ DeliverInsert
    \/ Subscribed /\ DeliverUpdate
    \/ Subscribed /\ handleRealtimeDelete
    \/ DropEvent
    \/ \E h \in InFlight, ok \in BOOLEAN : RefetchServe(h, ok)
    \/ \E h \in InFlight : handleRealtimeInsert(h)
    \/ \E h \in InFlight : handleRealtimeUpdate(h)

SpecLife == Init /\ [][NextLife]_vars

----------------------------------------------------------------------------
(* Claims *)

Handlers == {h \in InFlight : h.kind \in {"handleRealtimeInsert", "handleRealtimeUpdate"}}

\* ceil(count / pageSize), as the least n with n * pageSize >= count
CeilOf(count, pageSize) ==
    CHOOSE n \in 0..count : n * pageSize >= count /\ (n = 0 \/ (n - 1) * pageSize < count)

ServedPage(requestedPage, count, pageSize) ==
    LET totalPages == IF CeilOf(count, pageSize) < 1 THEN 1 ELSE CeilOf(count, pageSize)
        capped == IF requestedPage > totalPages THEN totalPages ELSE requestedPage
    IN  IF capped < 1 THEN 1 ELSE capped

\* the entries of s at the 0-based positions from .. to - 1
Window(s, from, to) ==
    LET last == IF to < Len(s) THEN to ELSE Len(s)
    IN  [i \in 1..(IF last > from THEN last - from ELSE 0) |-> s[from + i]]

\* C1: every fetch serves page p = max(1, min(requestedPage, totalPages)), with
\* totalPages = max(1, ceil(count / pageSize)) from that fetch's own count: the
\* data window is [(p-1)*pageSize, p*pageSize - 1] and pagination.currentPage is p.
C1_ServedPageIsClamped ==
    [][\A op \in InFlight :
        /\ FetchCountReturn(op) =>
              LET c == CountQuery(db, op.v)
                  p == ServedPage(op.v.page, c, op.v.pageSize)
              IN  \E f \in BagToSet(ops') :
                      /\ f.kind = "fetch" /\ f.stage = "data" /\ f.v = op.v
                      /\ f.total = c
                      /\ f.from = (p - 1) * op.v.pageSize
                      /\ f.to = p * op.v.pageSize - 1
        /\ FetchDataServe(op) =>
              LET p == ServedPage(op.v.page, op.total, op.v.pageSize)
                  all == OrderedIds(MatchingIds(db, op.v), op.v.sortOrder)
                  win == Window(all, (p - 1) * op.v.pageSize, p * op.v.pageSize)
              IN  \E f \in BagToSet(ops') :
                      /\ f.kind = "fetch" /\ f.stage = "apply" /\ f.v = op.v
                      /\ f.total = op.total
                      /\ f.data = [i \in 1..Len(win) |-> db[win[i]]]
        /\ FetchDataReturn(op) =>
              /\ pagination'.currentPage = ServedPage(op.v.page, op.total, op.v.pageSize)
              /\ pagination'.totalCount = op.total
              /\ pagination'.totalPages =
                    (IF CeilOf(op.total, op.v.pageSize) < 1 THEN 1
                     ELSE CeilOf(op.total, op.v.pageSize))
              /\ tasks' = op.data]_vars

\* a fetch has served the last page to a request beyond it
C1_Witness ==
    /\ ~isLoading
    /\ tasks # <<>>
    /\ pagination.totalCount > 0
    /\ view.page > pagination.totalPages
    /\ pagination.currentPage = pagination.totalPages

\* C2: a fetch whose count or data request fails writes nothing to the task
\* list or the pagination, sets the error message and sets isLoading to false.
C2_FailedFetchWritesNothing ==
    [][\A op \in InFlight :
        (FetchCountFail(op) \/ FetchDataFail(op)) =>
            /\ tasks' = tasks
            /\ pagination' = pagination
            /\ error' = "Failed to fetch tasks"
            /\ isLoading' = FALSE]_vars

\* a fetch failed while a page was displayed, and the page is still there
C2_Witness ==
    /\ error = "Failed to fetch tasks"
    /\ ~isLoading
    /\ tasks # <<>>
    /\ pagination.totalCount > 0

\* C3: no two entries of the task list have the same id.
C3_NoDuplicateIds ==
    \A i, j \in 1..Len(tasks) : i # j => tasks[i].id # tasks[j].id

\* a resumed handler that is going to write to the cache
WillWrite(h) ==
    /\ h.stage = "resume"
    /\ h.taskWithUser # NoRow
    /\ h.kind = "handleRealtimeInsert" => InsertPasses(h.taskWithUser, h.v)

\* C4: notifications take effect in delivery order: no handler writes to the
\* cache while the handler of an earlier notification still has its write to do.
C4_EffectsInDeliveryOrder ==
    [][/\ \A h \in Handlers :
            ((handleRealtimeInsert(h) \/ handleRealtimeUpdate(h))
                /\ <<tasks, pagination>>' # <<tasks, pagination>>)
            => \A g \in Handlers : g.seq < h.seq => ~WillWrite(g)
       /\ handleRealtimeDelete => \A g \in Handlers : ~WillWrite(g)]_vars

\* C5: when the Data Service rejects an update, the rollback makes the entry of
\* that id equal to the snapshot taken before the optimistic patch and leaves
\* every other entry and the order alone; with nothing else having touched the
\* list since the call, the list is the one before the call.
C5_UpdateRollbackRestoresSnapshot ==
    [][\A op \in InFlight : UpdateFail(op) =>
        /\ op.originalTask \in {op.pre[i] : i \in 1..Len(op.pre)}
        /\ op.originalTask.id = op.id
        /\ Len(tasks') = Len(tasks)
        /\ \A i \in 1..Len(tasks) :
              tasks'[i] = IF tasks[i].id = op.id THEN op.originalTask ELSE tasks[i]
        /\ (/\ Len(tasks) = Len(op.pre)
            /\ \A i \in 1..Len(tasks) :
                  /\ tasks[i].id = op.pre[i].id
                  /\ tasks[i].id # op.id => tasks[i] = op.pre[i])
           => /\ \A i \in 1..Len(op.pre) :
                    tasks'[i] = IF op.pre[i].id = op.id THEN op.originalTask ELSE op.pre[i]
              /\ (C3_NoDuplicateIds => tasks' = op.pre)]_vars

\* an update of a displayed task was rejected and rolled back
C5_Witness ==
    /\ outcome = [kind |-> "update", threw |-> TRUE]
    /\ error = "Failed to update task"
    /\ nOps = 1
    /\ tasks # <<>>
    /\ \A i \in 1..Len(tasks) : tasks[i] = db[tasks[i].id]

\* C6: when the Data Service rejects a delete, the removed snapshot is in the
\* list again (appended at the tail), totalCount is as it was, the error is
\* "Failed to delete task" and the failure is re-thrown; the call itself does
\* not change totalCount either.
C6_DeleteRollbackReinserts ==
    [][/\ \A op \in InFlight : DeleteFail(op) =>
            /\ Len(tasks') = Len(tasks) + 1
            /\ tasks'[Len(tasks')] = op.taskToDelete
            /\ \A i \in 1..Len(tasks) : tasks'[i] = tasks[i]
            /\ op.taskToDelete.id = op.id
            /\ pagination' = pagination
            /\ error' = "Failed to delete task"
            /\ outcome' = [kind |-> "delete", threw |-> TRUE]
       /\ \A id \in Ids : DeleteTask(id) => pagination' = pagination]_vars

\* a delete of a displayed task was rejected and the task is displayed again
C6_Witness ==
    /\ outcome = [kind |-> "delete", threw |-> TRUE]
    /\ error = "Failed to delete task"
    /\ nOps = 1
    /\ Len(tasks) = 2
    /\ pagination.totalCount = 2

\* C7: toggle(id, isCompleted) sets the entry's isCompleted to the negation of
\* its argument, and on failure to exactly its argument; no other field and
\* no other entry changes.
C7_ToggleRollsBackToArgument ==
    [][/\ \A id \in Ids, b \in BOOLEAN : ToggleTask(id, b) =>
            /\ Len(tasks') = Len(tasks)
            /\ \A i \in 1..Len(tasks) :
                  IF tasks[i].id = id
                  THEN /\ tasks'[i].isCompleted = ~b
                       /\ tasks'[i].id = id
                       /\ tasks'[i].title = tasks[i].title
                       /\ tasks'[i].description = tasks[i].description
                  ELSE tasks'[i] = tasks[i]
       /\ \A op \in InFlight : ToggleFail(op) =>
            /\ Len(tasks') = Len(tasks)
            /\ \A i \in 1..Len(tasks) :
                  IF tasks[i].id = op.id
                  THEN /\ tasks'[i].isCompleted = op.isCompleted
                       /\ tasks'[i].id = op.id
                       /\ tasks'[i].title = tasks[i].title
                       /\ tasks'[i].description = tasks[i].description
                  ELSE tasks'[i] = tasks[i]]_vars

\* a toggle called with an argument other than the value displayed was
\* rejected: the entry now holds the argument, not the value it had (which is
\* still the Data Service's)
C7_Witness ==
    /\ outcome = [kind |-> "toggle", threw |-> TRUE]
    /\ error = "Failed to toggle task"
    /\ nOps = 1
    /\ \E i \in 1..Len(tasks) :
          /\ db[tasks[i].id] # NoRow
          /\ tasks[i].isCompleted # db[tasks[i].id].isCompleted

\* the re-fetched row of a resumed insert handler is one the handler keeps
Kept(h) ==
    /\ h.kind = "handleRealtimeInsert"
    /\ h.stage = "resume"
    /\ h.taskWithUser # NoRow
    /\ InsertPasses(h.taskWithUser, h.v)

\* C8: an insert notification for an id that is already in the task list
\* leaves the task list as it is, so it adds no second entry of that id.
C8_InsertOfPresentIdKeepsList ==
    [][\A h \in InFlight :
        (handleRealtimeInsert(h) /\ h.id \in IdsOf(tasks)) => tasks' = tasks]_vars

\* the handler of an insert notification is about to merge a row whose id is displayed
C8_Witness ==
    \E h \in InFlight : Kept(h) /\ h.taskWithUser.id \in IdsOf(tasks)

T(n) == Row(n, <<"b">>, <<"b">>, FALSE)

\* C9: a kept insert notification for an id not in the list puts the row at the
\* head (newest) or the tail (oldest), keeps the slice [(page-1)*pageSize,
\* page*pageSize) of the extended list, and raises totalCount by 1 with
\* totalPages = ceil(totalCount / pageSize); [T5,T4,T3] with pageSize 3, page 1,
\* totalCount 5, newest, and T6 inserted gives [T6,T5,T4], 6 and 2.
C9_InsertPlacesAndTruncates ==
    [][/\ \A h \in InFlight :
            (handleRealtimeInsert(h) /\ Kept(h) /\ h.id \notin IdsOf(tasks)) =>
                LET extended == IF h.v.sortOrder = "newest"
                                THEN <<h.taskWithUser>> \o tasks
                                ELSE tasks \o <<h.taskWithUser>>
                IN  /\ tasks' = Window(extended, (h.v.page - 1) * h.v.pageSize,
                                       h.v.page * h.v.pageSize)
                    /\ pagination'.totalCount = pagination.totalCount + 1
                    /\ pagination'.totalPages =
                          CeilOf(pagination.totalCount + 1, pagination.pageSize)
       /\ LET v == [searchTerm |-> <<>>, sortOrder |-> "newest",
                    completionFilter |-> "all", page |-> 1, pageSize |-> 3]
              p == [currentPage |-> 1, totalPages |-> 2, totalCount |-> 5,
                    pageSize |-> 3, hasNextPage |-> TRUE, hasPrevPage |-> FALSE]
          IN  /\ InsertIntoList(<<T(5), T(4), T(3)>>, T(6), v) = <<T(6), T(5), T(4)>>
              /\ CountUp(p).totalCount = 6
              /\ CountUp(p).totalPages = 2]_vars

\* the handler is about to merge a new row into a full first page
C9_Witness ==
    \E h \in InFlight :
        /\ Kept(h)
        /\ h.taskWithUser.id \notin IdsOf(tasks)
        /\ h.v.page = 1
        /\ Len(tasks) = h.v.pageSize

\* a text has a character that is not white space
NonBlank(s) == \E i \in 1..Len(s) : s[i] # " "

\* case-insensitive containment, character by character
ContainsCI(text, term) ==
    \E k \in 0..(Len(text) - Len(term)) :
        \A i \in 1..Len(term) : LowerChar(text[k + i]) = LowerChar(term[i])

FailsCompletionFilter(row, completionFilter) ==
    \/ completionFilter = "active" /\ row.isCompleted # FALSE
    \/ completionFilter = "completed" /\ row.isCompleted # TRUE

\* C10 as stated: a row that fails the completion filter, or that matches a
\* non-empty search term in neither title nor description, is discarded.
C10_DiscardedUnlessMatching ==
    [][\A h \in InFlight :
        (/\ handleRealtimeInsert(h)
         /\ h.taskWithUser # NoRow
         /\ \/ FailsCompletionFilter(h.taskWithUser, h.v.completionFilter)
            \/ /\ h.v.searchTerm # <<>>
               /\ ~ContainsCI(h.taskWithUser.title, h.v.searchTerm)
               /\ ~ContainsCI(h.taskWithUser.description, h.v.searchTerm))
        => (tasks' = tasks /\ pagination' = pagination)]_vars

\* C10, amended: a row that fails the completion filter, or that matches a
\* search term which is not blank (has a character other than white space) in
\* neither title nor description, is discarded: the task list, totalCount and
\* totalPages are unchanged.
C10_DiscardedUnlessMatchingNonBlank ==
    [][\A h \in InFlight :
        (/\ handleRealtimeInsert(h)
         /\ h.taskWithUser # NoRow
         /\ \/ FailsCompletionFilter(h.taskWithUser, h.v.completionFilter)
            \/ /\ NonBlank(h.v.searchTerm)
               /\ ~ContainsCI(h.taskWithUser.title, h.v.searchTerm)
               /\ ~ContainsCI(h.taskWithUser.description, h.v.searchTerm))
        => (tasks' = tasks /\ pagination' = pagination)]_vars

\* the handler is about to discard a row that matches the search term nowhere
C10_Witness ==
    \E h \in InFlight :
        /\ h.kind = "handleRealtimeInsert"
        /\ h.stage = "resume"
        /\ h.taskWithUser # NoRow
        /\ NonBlank(h.v.searchTerm)
        /\ ~ContainsCI(h.taskWithUser.title, h.v.searchTerm)
        /\ ~ContainsCI(h.taskWithUser.description, h.v.searchTerm)
        /\ ~FailsCompletionFilter(h.taskWithUser, h.v.completionFilter)

\* the toggle of a displayed active task under the "active" filter is the only
\* call since the mount: it was confirmed, and h handles its notification
ToggledUnderActive(h) ==
    /\ nOps = 1
    /\ outcome = [kind |-> "toggle", threw |-> FALSE]
    /\ h.kind = "handleRealtimeUpdate"
    /\ h.stage = "resume"
    /\ h.taskWithUser # NoRow
    /\ h.v.completionFilter = "active"
    /\ h.id \in IdsOf(tasks)
    /\ find(tasks, h.id).isCompleted = TRUE

\* C11: under completionFilter = active, once a displayed active task has been
\* toggled to completed and its update notification is processed, the task is
\* not in the list and totalCount is 1 lower than before the toggle: the
\* toggle, its confirmation, the delivery and the re-fetch leave the pagination
\* alone, and the handler removes the entry and lowers totalCount by exactly 1.
C11_ToggledOutOfActiveFilter ==
    [][/\ \A id \in Ids : ToggleTask(id, FALSE) => pagination' = pagination
       /\ \A op \in InFlight :
             (ToggleOk(op) \/ RefetchServe(op, TRUE)) => pagination' = pagination
       /\ DeliverUpdate => pagination' = pagination
       /\ \A h \in InFlight :
             (handleRealtimeUpdate(h) /\ ToggledUnderActive(h)) =>
                /\ h.taskWithUser.isCompleted = TRUE
                /\ h.id \notin IdsOf(tasks')
                /\ Len(tasks') = Len(tasks) - 1
                /\ pagination'.totalCount = pagination.totalCount - 1
                /\ pagination'.totalCount = CountQuery(db, h.v)]_vars

\* the handler of the toggle's notification is about to process the completed row
C11_Witness ==
    \E h \in InFlight : ToggledUnderActive(h) /\ h.taskWithUser.isCompleted = TRUE

\* the row satisfies the completion filter and the search filter of the props
SatisfiesFilters(row, v) ==
    /\ ~FailsCompletionFilter(row, v.completionFilter)
    /\ \/ ~NonBlank(v.searchTerm)
       \/ ContainsCI(row.title, v.searchTerm)
       \/ ContainsCI(row.description, v.searchTerm)

\* C12: an update notification whose re-fetched row still satisfies the
\* completion and search filters replaces the entry of that id at its position:
\* length, order, every other entry and the pagination are unchanged; when no
\* entry has that id, the task list and the pagination are unchanged.
C12_UpdateReplacesInPlace ==
    [][\A h \in InFlight :
        (/\ handleRealtimeUpdate(h)
         /\ h.taskWithUser # NoRow
         /\ SatisfiesFilters(h.taskWithUser, h.v)) =>
            /\ h.taskWithUser.id = h.id
            /\ Len(tasks') = Len(tasks)
            /\ \A i \in 1..Len(tasks) :
                  tasks'[i] = IF tasks[i].id = h.id THEN h.taskWithUser ELSE tasks[i]
            /\ pagination' = pagination
            /\ h.id \notin IdsOf(tasks) => tasks' = tasks]_vars

\* the handler is about to replace the second entry of the list by a changed row
C12_Witness ==
    \E h \in InFlight :
        /\ h.kind = "handleRealtimeUpdate"
        /\ h.stage = "resume"
        /\ h.taskWithUser # NoRow
        /\ SatisfiesFilters(h.taskWithUser, h.v)
        /\ Len(tasks) = 2
        /\ tasks[2].id = h.id
        /\ tasks[2] # h.taskWithUser

\* C13: a delete notification removes the entries of the deleted id and leaves
\* the other entries in their order (so the list is unchanged when the id is
\* not in it); it sets totalCount to max(0, totalCount - 1) and totalPages to
\* ceil(totalCount / pageSize) of the new count; totalCount is never negative.
C13_DeleteNotificationRemovesAndFloors ==
    [][/\ pagination.totalCount >= 0
       /\ pagination'.totalCount >= 0
       /\ handleRealtimeDelete =>
            LET id == Head(events).id
                kept == {i \in 1..Len(tasks) : tasks[i].id # id}
                lowered == IF pagination.totalCount >= 1
                           THEN pagination.totalCount - 1 ELSE 0
            IN  /\ id \notin IdsOf(tasks')
                /\ Len(tasks') = Cardinality(kept)
                /\ \A i \in kept :
                      tasks'[Cardinality({j \in kept : j <= i})] = tasks[i]
                /\ id \notin IdsOf(tasks) => tasks' = tasks
                /\ pagination'.totalCount = lowered
                /\ pagination'.totalPages = CeilOf(lowered, pagination.pageSize)
                /\ pagination'.pageSize = pagination.pageSize
                /\ pagination'.currentPage = pagination.currentPage]_vars

\* the delete notification of a displayed task is about to be processed
C13_Witness ==
    /\ events # <<>>
    /\ Head(events).type = "DELETE"
    /\ Head(events).id \in IdsOf(tasks)
    /\ Len(tasks) = 2
    /\ pagination.totalCount = 2

\* C14: addTask never changes the task list or the pagination, neither at the
\* call nor when the create request succeeds or fails.  An id that is not in
\* the list comes into it only by a fetch response or the handler of its
\* insert notification, or is put back by the rollback of a delete, which
\* re-inserts an entry that was in the list when deleteTask was called.
C14_AddLeavesCacheAlone ==
    [][/\ \A n \in NewTasks :
             AddTask(n.title, n.description) => (tasks' = tasks /\ pagination' = pagination)
       /\ \A op \in InFlight :
             (AddOk(op) \/ AddFail(op)) => (tasks' = tasks /\ pagination' = pagination)
       /\ \A id \in Ids :
             (id \notin IdsOf(tasks) /\ id \in IdsOf(tasks')) =>
                \/ \E op \in InFlight : FetchDataReturn(op)
                \/ \E h \in InFlight : handleRealtimeInsert(h) /\ h.id = id
                \/ \E op \in InFlight : DeleteFail(op) /\ op.id = id
       /\ \A id \in Ids : DeleteTask(id) =>
             \A op \in BagToSet(ops') \ InFlight :
                 \E i \in 1..Len(tasks) : tasks[i] = op.taskToDelete]_vars

\* addTask has resolved: the created row is in the table, its notification is
\* on the channel, and the list displayed is still without it
C14_Witness ==
    /\ outcome = [kind |-> "add", threw |-> FALSE]
    /\ nOps = 1
    /\ events = <<[type |-> "INSERT", id |-> nextId - 1]>>
    /\ db[nextId - 1] # NoRow
    /\ tasks # <<>>
    /\ (nextId - 1) \notin IdsOf(tasks)

\* C15: updateTask and deleteTask called with an id that is not in the task
\* list fail with "Task not found", stored in error and re-thrown; no request
\* goes to the Data Service and the task list and the pagination are unchanged.
C15_AbsentIdFailsLocally ==
    [][/\ \A id \in Ids, u \in Updates :
             (UpdateTask(id, u) /\ id \notin IdsOf(tasks)) =>
                /\ error' = "Task not found"
                /\ outcome' = [kind |-> "update", threw |-> TRUE]
                /\ ops' = ops
                /\ <<db, events>>' = <<db, events>>
                /\ tasks' = tasks
                /\ pagination' = pagination
       /\ \A id \in Ids :
             (DeleteTask(id) /\ id \notin IdsOf(tasks)) =>
                /\ error' = "Task not found"
                /\ outcome' = [kind |-> "delete", threw |-> TRUE]
                /\ ops' = ops
                /\ <<db, events>>' = <<db, events>>
                /\ tasks' = tasks
                /\ pagination' = pagination]_vars

\* deleteTask of an id that is not on the displayed page has failed locally:
\* nothing is in flight and the row is still in the table
C15_Witness ==
    /\ outcome = [kind |-> "delete", threw |-> TRUE]
    /\ error = "Task not found"
    /\ nOps = 1
    /\ ops = EmptyBag
    /\ tasks # <<>>
    /\ \E id \in Ids : db[id] # NoRow /\ id \notin IdsOf(tasks)

\* C16: toggleTask called with an id that is not in the task list fails
\* locally: the failure is re-thrown and no update request for that id goes
\* to the Data Service.
C16_ToggleOfAbsentIdSendsNothing ==
    [][\A id \in Ids, b \in BOOLEAN :
        (ToggleTask(id, b) /\ id \notin IdsOf(tasks)) =>
            /\ ops' = ops
            /\ outcome' = [kind |-> "toggle", threw |-> TRUE]]_vars

\* C17: in every reachable state the task list holds at most pageSize entries.
C17_AtMostPageSizeEntries ==
    Len(tasks) <= view.pageSize

\* C18: in every reachable state pagination.totalPages is ceil(totalCount /
\* pageSize), and 1 when that is less than 1 (so 1, not 0, for totalCount 0).
C18_TotalPagesIsCeilAtLeastOne ==
    pagination.totalPages =
        (IF CeilOf(pagination.totalCount, pagination.pageSize) < 1 THEN 1
         ELSE CeilOf(pagination.totalCount, pagination.pageSize))

\* the message a failed mutation of the kind stores when the Data Service rejects it
Rejected(kind) ==
    CASE kind = "add" -> "Failed to add task"
      [] kind = "update" -> "Failed to update task"
      [] kind = "delete" -> "Failed to delete task"
      [] kind = "toggle" -> "Failed to toggle task"

\* C19: every failed add, update, delete or toggle, rejected by the Data
\* Service or failed on its local precondition, makes error the one message of
\* that failure, whatever error held before, and re-throws to the caller;
\* error is always null or one message.
C19_FailedMutationStoresAndRethrows ==
    [][/\ \A op \in InFlight :
             (AddFail(op) \/ UpdateFail(op) \/ DeleteFail(op) \/ ToggleFail(op)) =>
                /\ error' = Rejected(op.kind)
                /\ outcome' = [kind |-> op.kind, threw |-> TRUE]
       /\ \A id \in Ids, u \in Updates :
             (UpdateTask(id, u) /\ id \notin IdsOf(tasks)) =>
                /\ error' = "Task not found"
                /\ outcome' = [kind |-> "update", threw |-> TRUE]
       /\ \A id \in Ids :
             (DeleteTask(id) /\ id \notin IdsOf(tasks)) =>
                /\ error' = "Task not found"
                /\ outcome' = [kind |-> "delete", threw |-> TRUE]
       /\ error' \in {Null, "Task not found", "Failed to fetch tasks"}
                     \cup {Rejected(k) : k \in {"add", "update", "delete", "toggle"}}]_vars

\* error holds the message of one failed mutation while another mutation,
\* whose failure will replace it, is in flight
C19_Witness ==
    /\ outcome.threw
    /\ error = Rejected(outcome.kind)
    /\ \E op \in InFlight :
          op.kind \in {"add", "update", "delete", "toggle"} /\ op.kind # outcome.kind

\* C20: when the re-fetch of the joined row for an insert or update
\* notification fails or finds no row, the notification is dropped: neither
\* the answer nor the handler's continuation changes the task list, the
\* pagination or the error message.
C20_FailedRefetchDropsNotification ==
    [][\A h \in InFlight :
        /\ RefetchServe(h, FALSE) =>
              <<tasks, pagination, error>>' = <<tasks, pagination, error>>
        /\ ((handleRealtimeInsert(h) \/ handleRealtimeUpdate(h))
                /\ h.taskWithUser = NoRow) =>
              <<tasks, pagination, error>>' = <<tasks, pagination, error>>]_vars

\* the handler of an update notification for a displayed task resumes without
\* a row, while an error message is held
C20_Witness ==
    \E h \in InFlight :
        /\ h.kind = "handleRealtimeUpdate"
        /\ h.stage = "resume"
        /\ h.taskWithUser = NoRow
        /\ h.id \in IdsOf(tasks)
        /\ error # Null

\* C21: fetches in flight are neither cancelled nor sequenced: a new fetch
\* leaves the earlier ones in flight, and every successful response, also
\* that of a fetch issued for earlier props arriving after a later fetch's,
\* replaces the task list and the pagination by its own data and counts.
C21_LastResponseWins ==
    [][/\ ChangeView(view') =>
             \A op \in InFlight : op.kind = "fetch" => op \in BagToSet(ops')
       /\ \A op \in InFlight : FetchDataReturn(op) =>
             /\ tasks' = op.data
             /\ pagination'.totalCount = op.total
             /\ pagination'.totalPages = op.totalPages
             /\ pagination'.currentPage = op.actualPage
             /\ pagination'.pageSize = op.v.pageSize]_vars

\* the fetch for the new props has completed, and the response of the fetch
\* issued before it, for the old props and with other data, is about to arrive
C21_Witness ==
    /\ ~isLoading
    /\ \E op \in InFlight :
          /\ op.kind = "fetch" /\ op.stage = "apply"
          /\ op.v # view
          /\ op.data # tasks
          /\ \A o \in InFlight : o.kind = "fetch" => o = op
          /\ ops[op] = 1

\* C22: at most one channel is subscribed at any moment; when the props change
\* the channel of the old handlers is removed before the new one is
\* subscribed; after the teardown no channel is left, and a notification is
\* handed to a handler only while the component is mounted and subscribed.
C22_OneSubscriptionUntilTeardown ==
    [][/\ Cardinality(channels') <= 1
       /\ mounted' => channels' = {view'}
       /\ ~mounted' => channels' = {}
       /\ ChangeView(view') =>
             (RemoveChannel(channels, view) = {} /\ channels' = {view'})
       /\ nDelivered' # nDelivered => (mounted /\ channels = {view})]_vars

\* the props have changed (the fetch for the old ones is still in flight), the
\* component was torn down, and a change event is there that no handler will get
C22_Witness ==
    /\ ~mounted
    /\ channels = {}
    /\ events # <<>>
    /\ \E op \in InFlight : op.kind = "fetch" /\ op.v # view

\* C23: no failure is fatal.  Every fetch that finishes, with its data or with
\* a failure, sets isLoading to false; and in every state, whatever failed
\* before, a refetch, an add, an update, a delete and a toggle can be called
\* and a pending notification can be handed to its handler.
C23_NoFailureIsFatal ==
    [][/\ \A op \in InFlight :
             (FetchCountFail(op) \/ FetchDataFail(op) \/ FetchDataReturn(op)) =>
                 isLoading' = FALSE
       /\ nOps < MaxOps =>
             /\ ENABLED FetchStart
             /\ ENABLED (\E n \in NewTasks : AddTask(n.title, n.description))
             /\ ENABLED (\E id \in Ids, u \in Updates : UpdateTask(id, u))
             /\ ENABLED (\E id \in Ids : DeleteTask(id))
             /\ ENABLED (\E id \in Ids, b \in BOOLEAN : ToggleTask(id, b))
       /\ events # <<>> =>
             ENABLED (DeliverInsert \/ DeliverUpdate \/ handleRealtimeDelete)]_vars

\* a fetch has failed and a mutation has failed on its precondition while the
\* mount fetch was loading, and the hook can take further calls
C23_Witness ==
    /\ error = "Failed to fetch tasks"
    /\ outcome.threw
    /\ ~isLoading
    /\ nOps < MaxOps

\* the entries of the list that have the id, in their order
Shown(list, id) == SelectSeq(list, LAMBDA t : t.id = id)

MutationsInFlight == {op \in InFlight : op.kind \in {"update", "delete", "toggle"}}

\* the list shows the target of the mutation in flight in its optimistic state
\* (for a toggle: the flip of the value the Data Service still holds)
InOptimisticState(op) ==
    CASE op.kind = "update" ->
            Shown(tasks, op.id) = <<Spread(op.originalTask, op.updates)>>
      [] op.kind = "delete" -> Shown(tasks, op.id) = <<>>
      [] op.kind = "toggle" ->
            /\ db[op.id] # NoRow
            /\ db[op.id].isCompleted = op.isCompleted
            /\ Len(Shown(tasks, op.id)) = 1
            /\ Shown(tasks, op.id)[1].isCompleted = ~op.isCompleted

\* C24 as stated: while an update, delete or toggle is between its optimistic
\* apply and its confirmation or rollback and the list shows the target in the
\* optimistic state, no fetch result and no notification that is processed
\* changes what the list shows for the target id.
C24_OnlyOptimisticStateVisible ==
    [][\A op \in MutationsInFlight :
        (/\ InOptimisticState(op)
         /\ \/ \E f \in InFlight : FetchDataReturn(f)
            \/ \E h \in InFlight : handleRealtimeInsert(h) \/ handleRealtimeUpdate(h)
            \/ handleRealtimeDelete)
        => Shown(tasks', op.id) = Shown(tasks, op.id)]_vars

\* C24, amended: between its optimistic apply and its confirmation or
\* rollback an update, delete or toggle does not write the list, and its
\* confirmation leaves the list as it is; what the list shows for the target
\* id changes in between only by a fetch result, a processed notification, or
\* the call or the rollback of a mutation of that id.
C24_OperationShowsNoIntermediateState ==
    [][\A op \in MutationsInFlight :
        /\ (UpdateOk(op) \/ DeleteOk(op) \/ ToggleOk(op)) => tasks' = tasks
        /\ Shown(tasks', op.id) # Shown(tasks, op.id) =>
              \/ \E f \in InFlight : FetchDataReturn(f)
              \/ \E h \in InFlight : handleRealtimeInsert(h) \/ handleRealtimeUpdate(h)
              \/ handleRealtimeDelete
              \/ \E u \in Updates : UpdateTask(op.id, u)
              \/ DeleteTask(op.id)
              \/ \E b \in BOOLEAN : ToggleTask(op.id, b)
              \/ \E o \in MutationsInFlight :
                    o.id = op.id /\ (UpdateFail(o) \/ DeleteFail(o) \/ ToggleFail(o))]_vars

\* an update is in flight and the list shows the entry as it was before the
\* optimistic patch: a fetch result or a notification has replaced the patched entry
C24_Witness ==
    \E op \in InFlight :
        /\ op.kind = "update"
        /\ Spread(op.originalTask, op.updates) # op.originalTask
        /\ Shown(tasks, op.id) = <<op.originalTask>>
        /\ MutationsInFlight = {op}
        /\ outcome.kind = "none"

\* C25: an insert notification whose row passes the filters and whose id is
\* already in the task list is a no-op: the list, totalCount and totalPages
\* are all unchanged.
C25_DedupedInsertLeavesCounts ==
    [][\A h \in InFlight :
        (handleRealtimeInsert(h) /\ Kept(h) /\ h.id \in IdsOf(tasks)) =>
            /\ tasks' = tasks
            /\ pagination'.totalCount = pagination.totalCount
            /\ pagination'.totalPages = pagination.totalPages]_vars

\* no fetch response has arrived since the mount (totalCount is still the
\* initial 0); another client has inserted a row and then deleted one, the two
\* notifications were delivered in that order, and h, the handler of the
\* insert, is the last that has its change to apply
InsertThenDeleteFromZero(h) ==
    /\ \E f \in InFlight : f.kind = "fetch"
    /\ nOps = 2
    /\ nextId = 4
    /\ Cardinality({i \in 1..2 : db[i] = NoRow}) = 1
    /\ events = <<>>
    /\ nDelivered = 2
    /\ h.seq = 1
    /\ Handlers = {h}

\* C26: the handlers adjust totalCount relative to the value held when they
\* apply their change, so k matching insert and m delete notifications
\* processed with no fetch in between change totalCount by k - m, floored at
\* 0, whatever the interleaving of the re-fetches: one insert followed by one
\* delete, from totalCount 0, leave totalCount at 0.
C26_CountChangesByInsertsMinusDeletes ==
    [][\A h \in InFlight :
        (handleRealtimeInsert(h) /\ Kept(h) /\ InsertThenDeleteFromZero(h)) =>
            pagination'.totalCount = 0]_vars

\* hasNextPage and hasPrevPage are the flags derived from the counts
DerivedFlags(p) ==
    /\ p.hasNextPage = (p.currentPage < p.totalPages)
    /\ p.hasPrevPage = (p.currentPage > 1)

\* C27: the pagination flags are the ones derived from the current counts,
\* hasNextPage = (currentPage < totalPages) and hasPrevPage = (currentPage > 1),
\* also after a notification has changed totalCount and totalPages: no step
\* leads from a pagination whose flags are the derived ones to one whose
\* flags are not.
C27_FlagsFollowCounts ==
    [][DerivedFlags(pagination) => DerivedFlags(pagination')]_vars

\* C28: an insert notification never adds to the task list a row that fails
\* the completion filter or the search term of the props in force at the
\* moment the row is added, also when the props changed while the handler's
\* re-fetch of the joined row was pending.
C28_InsertedRowPassesCurrentFilters ==
    [][\A h \in InFlight :
          (/\ handleRealtimeInsert(h)
           /\ h.taskWithUser # NoRow
           /\ h.taskWithUser.id \notin IdsOf(tasks)
           /\ h.taskWithUser.id \in IdsOf(tasks'))
          => SatisfiesFilters(h.taskWithUser, view)]_vars

\* One update or toggle of a displayed task next to the fetches: the hook is
\* mounted, refetch is called, one task of the list is updated or toggled, the
\* Data Service confirms it and its notification is merged after a successful
\* query of the joined row.  Nobody else changes the table.
NextConverge ==
    \/ FetchStart
    \/ \E op \in InFlight : FetchCountReturn(op)
    \/ \E op \in InFlight : FetchDataServe(op)
    \/ \E op \in InFlight : FetchDataReturn(op)
    \/ \E id \in IdsOf(tasks), u \in Updates :
          outcome.kind = "none" /\ MutationsInFlight = {} /\ UpdateTask(id, u)
    \/ \E op \in InFlight : UpdateOk(op)
    \/ \E i \in 1..Len(tasks) :
          outcome.kind = "none" /\ MutationsInFlight = {}
              /\ ToggleTask(tasks[i].id, tasks[i].isCompleted)
    \/ \E op \in InFlight : ToggleOk(op)
    \/ DeliverUpdate
    \/ \E h \in InFlight : RefetchServe(h, TRUE)
    \/ \E h \in InFlight : handleRealtimeUpdate(h)

SpecConverge == Init /\ [][NextConverge]_vars

\* C29: convergence after a stale overwrite.  Under SpecConverge the only
\* change of the table is one successful update or toggle of a task that was
\* displayed, and the only thing that can bring an older row back over its
\* optimistic patch is the result of a fetch served before the change.  Once
\* the update notification of the change has been processed (after a
\* successful query of the joined row) and nothing is in flight, every entry
\* whose row still matches the filters equals the current row.
C29_ConvergesAfterStaleOverwrite ==
    (/\ outcome.kind \in {"update", "toggle"} /\ ~outcome.threw
     /\ nDelivered = 1
     /\ events = <<>>
     /\ ops = EmptyBag)
    => \A i \in 1..Len(tasks) :
           (db[tasks[i].id] # NoRow /\ SatisfiesFilters(db[tasks[i].id], view))
           => tasks[i] = db[tasks[i].id]

\* the tasks table differs from the one at mount by deletions only
OnlyDeletions == \A i \in Ids : db[i] = NoRow \/ db[i] = TwoTasks[i]

\* C30: a fetch issues its data request only when its count request has
\* returned, and a fetch that succeeds and records totalCount > 0 does not
\* leave the task list empty, also when tasks are deleted at the Data Service
\* between the two requests (deletions are the only changes considered).
C30_CountFirstAndNeverEmpty ==
    [][/\ \A op \in InFlight' \ InFlight :
             (op.kind = "fetch" /\ op.stage = "data")
             => \E c \in InFlight : FetchCountReturn(c)
       /\ \A op \in InFlight :
             (FetchDataReturn(op) /\ op.total > 0 /\ OnlyDeletions)
             => tasks' # <<>>]_vars

\* C31: when the Data Service announces the insert of an id and later its
\* delete, the task list does not contain the id once both handlers have
\* finished, whatever the timing of the insert handler's query of the joined
\* row.  The insert handler that finishes after the delete was handled (the
\* row is gone and no event of the id is pending) does not add the id.
C31_InsertThenDeleteLeavesIdOut ==
    [][\A h \in InFlight :
          (/\ handleRealtimeInsert(h)
           /\ db[h.id] = NoRow
           /\ \A i \in 1..Len(events) : events[i].id # h.id
           /\ h.id \notin IdsOf(tasks))
          => h.id \notin IdsOf(tasks')]_vars

\* C32: processing an insert notification whose row matches the filters does
\* not shrink the task list, on any page: the list after it has at least as
\* many entries as before, and at most one entry of the list is lost.
C32_InsertNeverShrinksList ==
    [][\A h \in InFlight :
          (/\ handleRealtimeInsert(h)
           /\ h.taskWithUser # NoRow
           /\ InsertPasses(h.taskWithUser, h.v))
          => /\ Len(tasks') >= Len(tasks)
             /\ Cardinality(IdsOf(tasks) \ IdsOf(tasks')) <= 1]_vars

\* C33: in every reachable state totalCount is at least the number of entries
\* of the task list, also after update and delete notifications for tasks
\* that are not displayed or never matched the filters.
C33_CountCoversList == pagination.totalCount >= Len(tasks)

\* C34: in every reachable state after the first successful fetch,
\* 1 <= currentPage <= totalPages, also after delete and update notifications
\* have lowered totalPages.  Under SpecMerge the mount fetch is the only fetch
\* and it succeeds, so isLoading is FALSE exactly when it has.
C34_CurrentPageWithinTotalPages ==
    ~isLoading =>
        /\ 1 <= pagination.currentPage
        /\ pagination.currentPage <= pagination.totalPages

\* C35: deleteTask itself never changes totalCount, neither at the optimistic
\* removal nor at the confirmation or the rollback; once the delete has
\* succeeded, the processing of its DELETE notification (the one event left
\* to deliver) lowers totalCount by exactly 1 and leaves the list without
\* that id.
C35_DeleteCountedOnceByNotification ==
    [][/\ \A id \in Ids : DeleteTask(id) => pagination' = pagination
       /\ \A op \in InFlight :
             (DeleteOk(op) \/ DeleteFail(op)) => pagination' = pagination
       /\ (/\ handleRealtimeDelete
           /\ outcome = [kind |-> "delete", threw |-> FALSE]
           /\ Len(events) = 1)
          => /\ pagination'.totalCount = pagination.totalCount - 1
             /\ Head(events).id \notin IdsOf(tasks')]_vars

\* C36: isLoading is TRUE in every state in which at least one fetch is in
\* flight, also when two fetches overlap and the first has completed.
C36_LoadingWhileFetchInFlight ==
    (\E op \in InFlight : op.kind = "fetch") => isLoading

\* The component changes searchTerm, sortOrder or completionFilter: the hook is
\* rendered with the new value and the page it had, fetchTasks() runs up to
\* its await, and the component's effect resets the page to 1; if the page
\* was another one the hook is rendered again and a second fetchTasks() runs.
\* Both renders are over before a response can arrive.
ChangeFilters(w) ==
    /\ mounted
    /\ nOps < MaxOps
    /\ nOps' = nOps + 1
    /\ w # view /\ w.page = view.page /\ w.pageSize = view.pageSize
    /\ LET reset == [w EXCEPT !.page = 1]
           first == [kind |-> "fetch", stage |-> "count", v |-> w]
           second == [kind |-> "fetch", stage |-> "count", v |-> reset]
       IN  /\ view' = reset
           /\ channels' = Subscribe(RemoveChannel(
                              Subscribe(RemoveChannel(channels, view), w), w), reset)
           /\ ops' = IF reset = w THEN AddOp(first)
                     ELSE AddOp(first) (+) SetToBag({second})
    /\ isLoading' = TRUE
    /\ error' = Null
    /\ UNCHANGED <<db, nextId, events, tasks, pagination, outcome, nDelivered, mounted>>

\* The hook under the component's changes of the filters, each made when no
\* fetch is in flight; every fetch succeeds and nobody changes the table.
NextApp ==
    \/ \E op \in InFlight : FetchCountReturn(op)
    \/ \E op \in InFlight : FetchDataServe(op)
    \/ \E op \in InFlight : FetchDataReturn(op)
    \/ \E w \in NextViews(view) :
          (\A op \in InFlight : op.kind # "fetch") /\ ChangeFilters(w)

SpecApp == Init /\ [][NextApp]_vars

\* C37: after a change of search term, sort order or completion filter, once
\* every fetch in flight has completed successfully, currentPage is 1 and
\* the task list is the first page for the latest props.  Under SpecApp
\* nOps counts the changes of the filters, and the fetches in flight after a
\* change are the ones it started.
C37_FilterChangeEndsOnFirstPage ==
    (nOps >= 1 /\ ~\E op \in InFlight : op.kind = "fetch")
    => /\ pagination.currentPage = 1
       /\ tasks = DataQuery(db, view, 0, view.pageSize - 1)

====
